---- MODULE Spec2Model ----
(***************************************************************************)
(* Model of the polymarket-execution order engine:                         *)
(*   trader.py  retry_on_failure, PolymarketTrader                         *)
(*   config.py  PolymarketConfig.get_trading_limits                        *)
(*                                                                         *)
(* Floats are fixed-point integers in units of 0.001 (MIN price 0.01 = 10, *)
(* MAX_PRICE 1.0 = 1000, min_order_size 0.1 = 100) tagged with their kind, *)
(* so that NaN (every comparison false) and non-numeric arguments are      *)
(* values of the model.  A product of two floats is in units of 0.000001   *)
(* on both sides of the one comparison that uses it.                       *)
(***************************************************************************)
EXTENDS Integers, Sequences, FiniteSets, TLC

(***************************************************************************)
(* Bounds of the model                                                     *)
(***************************************************************************)
\* longest token id given to _validate_token_id on its own
MaxTokenLen == 3
\* number of initialize_client calls in one behaviour
MaxInits == 2
\* largest max_retries given to retry_on_failure in the wrapper harness
MaxRetriesBound == 3
\* largest base delay given to retry_on_failure in the wrapper harness
MaxDelay == 2

(***************************************************************************)
(* Program constants                                                       *)
(***************************************************************************)
DEFAULT_MAX_RETRIES == 3
DEFAULT_RETRY_DELAY == 1
\* PolymarketTrader.MAX_PRICE = 1.0, in units of 0.001
MAX_PRICE == 1000
\* get_trading_limits: "min_price": 0.01 and "min_order_size": 0.1
LIMIT_MIN_PRICE == 10
LIMIT_MIN_ORDER_SIZE == 100

BUY == "BUY"
SELL == "SELL"
\* OrderType.GTC
GTC == "GTC"

(***************************************************************************)
(* Floats                                                                  *)
(***************************************************************************)
F(n) == [k |-> "num", v |-> n]
NaN == [k |-> "nan", v |-> 0]
\* an argument that is neither int nor float (None, a string, ...)
NotANumber == [k |-> "other", v |-> 0]

\* isinstance(x, (int, float))
IsNumber(x) == x.k \in {"num", "nan"}
\* Python comparisons of floats: any comparison with NaN is False
FLt(a, b) == a.k = "num" /\ b.k = "num" /\ a.v < b.v
FLe(a, b) == a.k = "num" /\ b.k = "num" /\ a.v <= b.v
FGt(a, b) == FLt(b, a)
FMul(a, b) == IF a.k = "num" /\ b.k = "num" THEN F(a.v * b.v) ELSE NaN

(***************************************************************************)
(* Token ids: a str is a sequence of characters, "a" standing for any      *)
(* character of [a-zA-Z0-9]; anything else is not a str (None, an int).    *)
(***************************************************************************)
TokenChars == {"a", "_", "-", " ", "/", "\n"}
ClassChars == {"a", "_", "-"}
Str(s) == [k |-> "str", s |-> s]
NotAStr == [k |-> "other", s |-> <<>>]

\* re.match(r"^[a-zA-Z0-9_-]+$", s): a non-empty run of class characters
\* from the start, then the end of the string; `$` also matches just before
\* a newline that ends the string
ReMatchToken(s) ==
    \E n \in 1..Len(s) :
        /\ \A i \in 1..n : s[i] \in ClassChars
        /\ \/ n = Len(s)
           \/ n = Len(s) - 1 /\ s[Len(s)] = "\n"

\* PolymarketTrader._validate_token_id
validate_token_id(token_id) ==
    IF token_id.k # "str" \/ token_id.s = <<>>
    THEN FALSE
    ELSE ReMatchToken(token_id.s)

(***************************************************************************)
(* PolymarketConfig.get_trading_limits                                     *)
(***************************************************************************)
get_trading_limits(cfg) ==
    [max_order_size |-> cfg.max_order_size,
     min_price      |-> F(LIMIT_MIN_PRICE),
     min_order_size |-> F(LIMIT_MIN_ORDER_SIZE)]

(***************************************************************************)
(* PolymarketTrader._validate_order_params: 0 when it returns None,        *)
(* otherwise the number (1..7) of the check that raises ValidationError.   *)
(* side is accepted and never read.                                        *)
(***************************************************************************)
\* a size equal to max_order_size is refused
validate_order_params_below_max(limits, price, size, side) ==
    IF ~IsNumber(price) \/ FLe(price, F(0)) THEN 1
    ELSE IF ~IsNumber(size) \/ FLe(size, F(0)) THEN 2
    ELSE IF FLt(price, limits.min_price) THEN 3
    ELSE IF FGt(price, F(MAX_PRICE)) THEN 4
    ELSE IF FLt(size, limits.min_order_size) THEN 5
    ELSE IF FLe(limits.max_order_size, size) THEN 6
    ELSE IF FGt(FMul(price, size), FMul(F(MAX_PRICE), limits.max_order_size)) THEN 7
    ELSE 0

\* the comparison with MAX_PRICE is missing
validate_order_params_no_max_price(limits, price, size, side) ==
    IF ~IsNumber(price) \/ FLe(price, F(0)) THEN 1
    ELSE IF ~IsNumber(size) \/ FLe(size, F(0)) THEN 2
    ELSE IF FLt(price, limits.min_price) THEN 3
    ELSE IF FLt(size, limits.min_order_size) THEN 5
    ELSE IF FGt(size, limits.max_order_size) THEN 6
    ELSE IF FGt(FMul(price, size), FMul(F(MAX_PRICE), limits.max_order_size)) THEN 7
    ELSE 0

\* the comparison with min_order_size is missing
validate_order_params_no_min_size(limits, price, size, side) ==
    IF ~IsNumber(price) \/ FLe(price, F(0)) THEN 1
    ELSE IF ~IsNumber(size) \/ FLe(size, F(0)) THEN 2
    ELSE IF FLt(price, limits.min_price) THEN 3
    ELSE IF FGt(price, F(MAX_PRICE)) THEN 4
    ELSE IF FGt(size, limits.max_order_size) THEN 6
    ELSE IF FGt(FMul(price, size), FMul(F(MAX_PRICE), limits.max_order_size)) THEN 7
    ELSE 0

\* without rule 6, the upper limit of the size
validate_order_params_no_max_size(limits, price, size, side) ==
    IF ~IsNumber(price) \/ FLe(price, F(0)) THEN 1
    ELSE IF ~IsNumber(size) \/ FLe(size, F(0)) THEN 2
    ELSE IF FLt(price, limits.min_price) THEN 3
    ELSE IF FGt(price, F(MAX_PRICE)) THEN 4
    ELSE IF FLt(size, limits.min_order_size) THEN 5
    ELSE IF FGt(FMul(price, size), FMul(F(MAX_PRICE), limits.max_order_size)) THEN 7
    ELSE 0

\* trader.py:152-199
validate_order_params(limits, price, size, side) ==
    IF ~IsNumber(price) \/ FLe(price, F(0)) THEN 1
    ELSE IF ~IsNumber(size) \/ FLe(size, F(0)) THEN 2
    ELSE IF FLt(price, limits.min_price) THEN 3
    ELSE IF FGt(price, F(MAX_PRICE)) THEN 4
    ELSE IF FLt(size, limits.min_order_size) THEN 5
    ELSE IF FGt(size, limits.max_order_size) THEN 6
    ELSE IF FGt(FMul(price, size), FMul(F(MAX_PRICE), limits.max_order_size)) THEN 7
    ELSE 0

(***************************************************************************)
(* retry_on_failure(max_retries, delay)(func).  func is given by the       *)
(* outcome of each of its invocations: func[i] is what the i-th invocation *)
(* does, [kind |-> "return", payload |-> value] or                         *)
(* [kind |-> "raise", payload |-> exception] (an Exception; the wrapper's  *)
(* `except Exception` does not see KeyboardInterrupt or SystemExit).       *)
(* The result carries what the call does (return / raise), the number of   *)
(* invocations of func and the arguments of the time.sleep calls in order. *)
(* delay is a sleep duration, so it is non-negative.                       *)
(***************************************************************************)
NoException == "None"

RECURSIVE Pow2(_)
Pow2(n) == IF n <= 0 THEN 1 ELSE 2 * Pow2(n - 1)

\* the exception kept is dropped for the generic error
wrapper_after_loop_generic(last_exception, calls, sleeps) ==
    [kind |-> "raise", payload |-> "RuntimeError",
     calls |-> calls, sleeps |-> sleeps]

\* trader.py:49-53, the statements after the for loop
wrapper_after_loop(last_exception, calls, sleeps) ==
    IF last_exception # NoException
    THEN [kind |-> "raise", payload |-> last_exception,
          calls |-> calls, sleeps |-> sleeps]
    ELSE [kind |-> "raise", payload |-> "RuntimeError",
          calls |-> calls, sleeps |-> sleeps]

\* off by one: the last permitted attempt is never made
wrapper_retries_short(attempt, max_retries) == attempt < max_retries - 2

\* trader.py:44, whether a failed attempt is followed by another one
wrapper_retries(attempt, max_retries) == attempt < max_retries - 1

\* the delay is not doubled
backoff_flat(delay, attempt) == delay

\* trader.py:45, the argument of time.sleep
backoff(delay, attempt) == delay * Pow2(attempt)

\* trader.py:39-47, the for loop from iteration `attempt` on
RECURSIVE wrapper_loop(_, _, _, _, _, _)
wrapper_loop(max_retries, delay, func, attempt, sleeps, last_exception) ==
    IF attempt >= max_retries
    THEN wrapper_after_loop(last_exception, attempt, sleeps)
    ELSE LET out == func[attempt + 1] IN
         IF out.kind = "return"
         THEN [kind |-> "return", payload |-> out.payload,
               calls |-> attempt + 1, sleeps |-> sleeps]
         ELSE IF wrapper_retries(attempt, max_retries)
              THEN wrapper_loop(max_retries, delay, func, attempt + 1,
                                Append(sleeps, backoff(delay, attempt)),
                                out.payload)
              ELSE wrapper_after_loop(out.payload, attempt + 1, sleeps)

\* trader.py:36-53
wrapper(max_retries, delay, func) ==
    wrapper_loop(max_retries, delay, func, 0, <<>>, NoException)

(***************************************************************************)
(* The session held by the engine.  A ClobClient object is identified by   *)
(* the number of its construction; creds is the session whose derived      *)
(* credentials are installed on it (0: none).                              *)
(***************************************************************************)
None == [sid |-> 0, creds |-> 0]

\* what the external calls of one initialize attempt do: all succeed, or
\* the named call raises
InitExt == {"ok", "ClobClient", "create_or_derive_api_creds", "set_api_creds"}

\* the exception is logged and raised again
initialize_client_except_reraise(st, log) ==
    [kind |-> "raise", payload |-> "Exception", log |-> log,
     st |-> [client |-> st.client, is_initialized |-> FALSE,
             sessions |-> st.sessions]]

\* the flag is left as it was
initialize_client_except_keep(st, log) ==
    [kind |-> "return", payload |-> "False", log |-> log,
     st |-> [client |-> st.client, is_initialized |-> st.is_initialized,
             sessions |-> st.sessions]]

\* trader.py:139-142, the except clause of initialize_client
initialize_client_except(st, log) ==
    [kind |-> "return", payload |-> "False", log |-> log,
     st |-> [client |-> st.client, is_initialized |-> FALSE,
             sessions |-> st.sessions]]

\* a session left by a failed attempt is kept and never replaced
initialize_client_body_sticky(st, ext) ==
    IF st.client # None /\ ~st.is_initialized
    THEN [kind |-> "return", payload |-> "False", log |-> <<>>, st |-> st]
    ELSE IF ext = "ClobClient"
    THEN initialize_client_except(st, <<"ClobClient">>)
    ELSE LET sid == st.sessions + 1
             st1 == [client |-> [sid |-> sid, creds |-> 0],
                     is_initialized |-> st.is_initialized,
                     sessions |-> sid]
         IN IF ext = "create_or_derive_api_creds"
            THEN initialize_client_except(st1,
                     <<"ClobClient", "create_or_derive_api_creds">>)
            ELSE IF ext = "set_api_creds"
            THEN initialize_client_except(st1,
                     <<"ClobClient", "create_or_derive_api_creds",
                       "set_api_creds">>)
            ELSE [kind |-> "return", payload |-> "True",
                  log |-> <<"ClobClient", "create_or_derive_api_creds",
                            "set_api_creds">>,
                  st |-> [client |-> [sid |-> sid, creds |-> sid],
                          is_initialized |-> TRUE,
                          sessions |-> sid]]

\* the credentials are derived and never installed
initialize_client_body_no_install(st, ext) ==
    IF ext = "ClobClient"
    THEN initialize_client_except(st, <<"ClobClient">>)
    ELSE LET sid == st.sessions + 1
             st1 == [client |-> [sid |-> sid, creds |-> 0],
                     is_initialized |-> st.is_initialized,
                     sessions |-> sid]
         IN IF ext = "create_or_derive_api_creds"
            THEN initialize_client_except(st1,
                     <<"ClobClient", "create_or_derive_api_creds">>)
            ELSE [kind |-> "return", payload |-> "True",
                  log |-> <<"ClobClient", "create_or_derive_api_creds">>,
                  st |-> [client |-> [sid |-> sid, creds |-> 0],
                          is_initialized |-> TRUE,
                          sessions |-> sid]]

\* trader.py:113-142, one invocation of the undecorated initialize_client on
\* the engine state st = [client, is_initialized, sessions]
initialize_client_body(st, ext) ==
    IF ext = "ClobClient"
    THEN initialize_client_except(st, <<"ClobClient">>)
    ELSE LET sid == st.sessions + 1
             st1 == [client |-> [sid |-> sid, creds |-> 0],
                     is_initialized |-> st.is_initialized,
                     sessions |-> sid]
         IN IF ext = "create_or_derive_api_creds"
            THEN initialize_client_except(st1,
                     <<"ClobClient", "create_or_derive_api_creds">>)
            ELSE IF ext = "set_api_creds"
            THEN initialize_client_except(st1,
                     <<"ClobClient", "create_or_derive_api_creds",
                       "set_api_creds">>)
            ELSE [kind |-> "return", payload |-> "True",
                  log |-> <<"ClobClient", "create_or_derive_api_creds",
                            "set_api_creds">>,
                  st |-> [client |-> [sid |-> sid, creds |-> sid],
                          is_initialized |-> TRUE,
                          sessions |-> sid]]

\* the successive invocations of the undecorated initialize_client, each on
\* the state the previous one left
RECURSIVE initialize_client_runs(_, _)
initialize_client_runs(st, exts) ==
    IF exts = <<>>
    THEN <<>>
    ELSE LET r == initialize_client_body(st, Head(exts))
         IN <<r>> \o initialize_client_runs(r.st, Tail(exts))

\* trader.py:105-106, the decorated initialize_client: the wrapper's result
\* and the state left by the invocations it made
initialize_client_call(st, exts) ==
    LET runs == initialize_client_runs(st, exts)
        func == [i \in 1..Len(runs) |->
                    [kind |-> runs[i].kind, payload |-> runs[i].payload]]
        w == wrapper(DEFAULT_MAX_RETRIES, DEFAULT_RETRY_DELAY, func)
    IN [kind |-> w.kind, payload |-> w.payload,
        calls |-> w.calls, sleeps |-> w.sleeps,
        st |-> IF w.calls = 0 THEN st ELSE runs[w.calls].st,
        log |-> IF w.calls = 0 THEN <<>> ELSE runs[w.calls].log]

(***************************************************************************)
(* Order placement                                                         *)
(***************************************************************************)
NoOrder == [price |-> NotANumber, size |-> NotANumber,
            side |-> "", token_id |-> NotAStr]
\* one entry of the trace of calls an operation makes
Ev(call, order, marker, result) ==
    [call |-> call, order |-> order, marker |-> marker, result |-> result]

\* what create_order / post_order do: return, or raise the named Exception
ExtOutcome == {"ok", "PolyApiException", "Exception"}

\* the order is created without looking at the result of the parameter check
place_order_try_unchecked(limits, token_id, price, size, side, ext) ==
    LET order_args == [price |-> price, size |-> size,
                       side |-> side, token_id |-> token_id]
        tok == validate_token_id(token_id)
        rule == validate_order_params(limits, price, size, side)
        e1 == <<Ev("_validate_token_id", NoOrder, "",
                   IF tok THEN "True" ELSE "False")>>
        e2 == Append(e1, Ev("_validate_order_params", NoOrder, "",
                            IF rule = 0 THEN "None" ELSE "ValidationError"))
        e3 == Append(e2, Ev("create_order", order_args, "", ext.create))
        e4 == Append(e3, Ev("post_order", order_args, GTC, ext.post))
    IN IF ~tok
       THEN [kind |-> "raise", payload |-> "ValidationError", log |-> e1]
       ELSE IF ext.create # "ok"
       THEN [kind |-> "raise", payload |-> ext.create, log |-> e3]
       ELSE IF ext.post # "ok"
       THEN [kind |-> "raise", payload |-> ext.post, log |-> e4]
       ELSE [kind |-> "return", payload |-> "True", log |-> e4]

\* the order is posted with another order type
place_order_try_fok(limits, token_id, price, size, side, ext) ==
    LET order_args == [price |-> price, size |-> size,
                       side |-> side, token_id |-> token_id]
        tok == validate_token_id(token_id)
        rule == validate_order_params(limits, price, size, side)
        e1 == <<Ev("_validate_token_id", NoOrder, "",
                   IF tok THEN "True" ELSE "False")>>
        e2 == Append(e1, Ev("_validate_order_params", NoOrder, "",
                            IF rule = 0 THEN "None" ELSE "ValidationError"))
        e3 == Append(e2, Ev("create_order", order_args, "", ext.create))
        e4 == Append(e3, Ev("post_order", order_args, "FOK", ext.post))
    IN IF ~tok
       THEN [kind |-> "raise", payload |-> "ValidationError", log |-> e1]
       ELSE IF rule # 0
       THEN [kind |-> "raise", payload |-> "ValidationError", log |-> e2]
       ELSE IF ext.create # "ok"
       THEN [kind |-> "raise", payload |-> ext.create, log |-> e3]
       ELSE IF ext.post # "ok"
       THEN [kind |-> "raise", payload |-> ext.post, log |-> e4]
       ELSE [kind |-> "return", payload |-> "True", log |-> e4]

\* create_order is called a second time when it raised
place_order_try_again(limits, token_id, price, size, side, ext) ==
    LET order_args == [price |-> price, size |-> size,
                       side |-> side, token_id |-> token_id]
        tok == validate_token_id(token_id)
        rule == validate_order_params(limits, price, size, side)
        e1 == <<Ev("_validate_token_id", NoOrder, "",
                   IF tok THEN "True" ELSE "False")>>
        e2 == Append(e1, Ev("_validate_order_params", NoOrder, "",
                            IF rule = 0 THEN "None" ELSE "ValidationError"))
        e3 == Append(e2, Ev("create_order", order_args, "", ext.create))
        e4 == Append(e3, Ev("post_order", order_args, GTC, ext.post))
    IN IF ~tok
       THEN [kind |-> "raise", payload |-> "ValidationError", log |-> e1]
       ELSE IF rule # 0
       THEN [kind |-> "raise", payload |-> "ValidationError", log |-> e2]
       ELSE IF ext.create # "ok"
       THEN [kind |-> "raise", payload |-> ext.create,
             log |-> Append(e3, Ev("create_order", order_args, "",
                                   ext.create))]
       ELSE IF ext.post # "ok"
       THEN [kind |-> "raise", payload |-> ext.post, log |-> e4]
       ELSE [kind |-> "return", payload |-> "True", log |-> e4]

\* trader.py:244-276, the try block of _place_order
place_order_try(limits, token_id, price, size, side, ext) ==
    LET order_args == [price |-> price, size |-> size,
                       side |-> side, token_id |-> token_id]
        tok == validate_token_id(token_id)
        rule == validate_order_params(limits, price, size, side)
        e1 == <<Ev("_validate_token_id", NoOrder, "",
                   IF tok THEN "True" ELSE "False")>>
        e2 == Append(e1, Ev("_validate_order_params", NoOrder, "",
                            IF rule = 0 THEN "None" ELSE "ValidationError"))
        e3 == Append(e2, Ev("create_order", order_args, "", ext.create))
        e4 == Append(e3, Ev("post_order", order_args, GTC, ext.post))
    IN IF ~tok
       THEN [kind |-> "raise", payload |-> "ValidationError", log |-> e1]
       ELSE IF rule # 0
       THEN [kind |-> "raise", payload |-> "ValidationError", log |-> e2]
       ELSE IF ext.create # "ok"
       THEN [kind |-> "raise", payload |-> ext.create, log |-> e3]
       ELSE IF ext.post # "ok"
       THEN [kind |-> "raise", payload |-> ext.post, log |-> e4]
       ELSE [kind |-> "return", payload |-> "True", log |-> e4]

\* without the `except ValidationError` clause and its catch-all
place_order_except_validation(exc) ==
    CASE exc = "ValidationError" -> [kind |-> "raise", payload |-> exc]
      [] exc = "PolyApiException" -> [kind |-> "return", payload |-> "False"]
      [] OTHER -> [kind |-> "return", payload |-> "False"]

\* without the final `except Exception` clause
place_order_except_api_only(exc) ==
    CASE exc = "ValidationError" -> [kind |-> "return", payload |-> "False"]
      [] exc = "PolyApiException" -> [kind |-> "return", payload |-> "False"]
      [] OTHER -> [kind |-> "raise", payload |-> exc]

\* trader.py:278-292, the except clauses of _place_order
place_order_except(exc) ==
    CASE exc = "ValidationError" -> [kind |-> "return", payload |-> "False"]
      [] exc = "PolyApiException" -> [kind |-> "return", payload |-> "False"]
      [] OTHER -> [kind |-> "return", payload |-> "False"]

\* `and` for `or`
not_ready_and(is_init, cl) == ~is_init /\ cl = None

\* trader.py:238, 304, 325: `not self._is_initialized or not self.client`
not_ready(is_init, cl) == ~is_init \/ cl = None

\* the readiness check inside the try block, so that it is reported as False
place_order_false(is_init, cl, limits, token_id, price, size, side, ext) ==
    IF not_ready(is_init, cl)
    THEN [kind |-> "return", payload |-> "False", log |-> <<>>]
    ELSE LET t == place_order_try(limits, token_id, price, size, side, ext)
         IN IF t.kind = "return"
            THEN t
            ELSE LET h == place_order_except(t.payload)
                 IN [kind |-> h.kind, payload |-> h.payload, log |-> t.log]

\* trader.py:234-292
place_order(is_init, cl, limits, token_id, price, size, side, ext) ==
    IF not_ready(is_init, cl)
    THEN [kind |-> "raise", payload |-> "TradingConnectionError",
          log |-> <<>>]
    ELSE LET t == place_order_try(limits, token_id, price, size, side, ext)
         IN IF t.kind = "return"
            THEN t
            ELSE LET h == place_order_except(t.payload)
                 IN [kind |-> h.kind, payload |-> h.payload, log |-> t.log]

\* trader.py:201-218
place_buy_order(is_init, cl, limits, token_id, price, size, ext) ==
    place_order(is_init, cl, limits, token_id, price, size, BUY, ext)

\* the sell order is placed with the side of a buy order
place_sell_order_as_buy(is_init, cl, limits, token_id, price, size, ext) ==
    place_order(is_init, cl, limits, token_id, price, size, BUY, ext)

\* trader.py:220-232
place_sell_order(is_init, cl, limits, token_id, price, size, ext) ==
    place_order(is_init, cl, limits, token_id, price, size, SELL, ext)

\* the dictionary returned by get_order_status, and none
NoStatus == [order_id |-> "", status |-> ""]

\* None is returned for the status
get_order_status_none(is_init, cl, order_id) ==
    IF not_ready(is_init, cl)
    THEN [kind |-> "raise", payload |-> "TradingConnectionError",
          status |-> NoStatus, log |-> <<>>]
    ELSE [kind |-> "return", payload |-> "None",
          status |-> NoStatus, log |-> <<>>]

\* trader.py:294-313; status is the returned dictionary
get_order_status(is_init, cl, order_id) ==
    IF not_ready(is_init, cl)
    THEN [kind |-> "raise", payload |-> "TradingConnectionError",
          status |-> NoStatus, log |-> <<>>]
    ELSE [kind |-> "return", payload |-> "dict",
          status |-> [order_id |-> order_id, status |-> "unknown"],
          log |-> <<>>]

\* trader.py:315-334
cancel_order(is_init, cl, order_id) ==
    IF not_ready(is_init, cl)
    THEN [kind |-> "raise", payload |-> "TradingConnectionError",
          log |-> <<>>]
    ELSE [kind |-> "return", payload |-> "True", log |-> <<>>]

(***************************************************************************)
(* State                                                                   *)
(***************************************************************************)
VARIABLES
    config,          \* PolymarketConfig: the settings the engine reads
    trading_limits,  \* PolymarketTrader._trading_limits
    client,          \* PolymarketTrader.client
    is_initialized,  \* PolymarketTrader._is_initialized
    sessions,        \* number of ClobClient objects constructed so far
    init_results,    \* what each initialize_client call so far did
    last,            \* the last engine operation: arguments, what the
                     \* external capability did, outcome, calls made, and
                     \* the engine state it started from
    r_in,            \* wrapper harness: max_retries, delay and func
    r_out,           \* wrapper harness: what the wrapped call did
    f_in,            \* function harness: the arguments or settings given
    f_out            \* function harness: what the function did with them

engine_vars == <<config, trading_limits, client, is_initialized, sessions,
                 init_results, last>>
retry_vars == <<r_in, r_out>>
fun_vars == <<f_in, f_out>>
vars == <<config, trading_limits, client, is_initialized, sessions,
          init_results, last, r_in, r_out, f_in, f_out>>

(***************************************************************************)
(* Inputs                                                                  *)
(***************************************************************************)
\* max_order_size settings: 10.0 and 0.05 (below min_order_size)
Configs == {[max_order_size |-> F(10000)], [max_order_size |-> F(50)]}
TokenIds == {Str(<<"a", "_">>), Str(<<"a", " ">>), NotAStr}
\* 0.6, 0.0, 0.005, 1.5
Prices == {F(600), F(0), F(5), F(1500)}
\* 10.0, 0.0, 0.05, 20.0
Sizes == {F(10000), F(0), F(50), F(20000)}
OrderIds == {"o1", "o2"}
\* what create_order and post_order do in one _place_order call; post_order
\* is only ever called after create_order has returned, so its behaviour is
\* enumerated for that case only
PlaceExt ==
    {e \in [create : ExtOutcome, post : ExtOutcome] :
        e.create # "ok" => e.post = "ok"}
InitPlans == [1..DEFAULT_MAX_RETRIES -> InitExt]

NoExt == [create |-> "", post |-> ""]
NoLast ==
    [op |-> "none", token_id |-> NotAStr, price |-> NotANumber,
     size |-> NotANumber, side |-> "", order_id |-> "", ext |-> NoExt,
     exts |-> <<>>, kind |-> "", payload |-> "", status |-> NoStatus,
     log |-> <<>>, init_log |-> <<>>, calls |-> 0, sleeps |-> <<>>,
     pre |-> [client |-> None, is_initialized |-> FALSE,
              trading_limits |-> get_trading_limits([max_order_size |-> NaN])]]

Pre == [client |-> client, is_initialized |-> is_initialized,
        trading_limits |-> trading_limits]

\* wrapper harness inputs
RetryValues == {"v1", "v2"}
RetryExceptions == {"E1", "E2"}
RetryOutcomes ==
    [kind : {"return"}, payload : RetryValues]
        \cup [kind : {"raise"}, payload : RetryExceptions]
RetryInputs ==
    UNION {[max_retries : {n}, delay : 0..MaxDelay,
            func : [1..n -> RetryOutcomes]] : n \in 0..MaxRetriesBound}
RetryIdle == [state |-> "idle", kind |-> "", payload |-> "",
              calls |-> 0, sleeps |-> <<>>]
RetryIn0 == [max_retries |-> 0, delay |-> 0, func |-> <<>>]

(***************************************************************************)
(* Init: PolymarketTrader.__init__ (trader.py:91-103)                      *)
(***************************************************************************)
EngineInit ==
    /\ config \in Configs
    /\ trading_limits = get_trading_limits(config)
    /\ client = None
    /\ is_initialized = FALSE
    /\ sessions = 0
    /\ init_results = <<>>
    /\ last = NoLast

\* the function harness before anything is given to it
FunIdle == [state |-> "idle"]
FunIn0 == [fn |-> "none"]

Init ==
    /\ EngineInit
    /\ r_in = RetryIn0
    /\ r_out = RetryIdle
    /\ f_in = FunIn0
    /\ f_out = FunIdle

(***************************************************************************)
(* Engine operations                                                       *)
(***************************************************************************)
InitializeClient ==
    /\ Len(init_results) < MaxInits
    /\ \E exts \in InitPlans :
         LET r == initialize_client_call(
                      [client |-> client, is_initialized |-> is_initialized,
                       sessions |-> sessions], exts)
         IN /\ client' = r.st.client
            /\ is_initialized' = r.st.is_initialized
            /\ sessions' = r.st.sessions
            /\ init_results' = Append(init_results, r.payload)
            /\ last' = [NoLast EXCEPT !.op = "initialize_client",
                                      !.exts = exts,
                                      !.kind = r.kind,
                                      !.payload = r.payload,
                                      !.init_log = r.log,
                                      !.calls = r.calls,
                                      !.sleeps = r.sleeps,
                                      !.pre = Pre]
    /\ UNCHANGED <<config, trading_limits, r_in, r_out, f_in, f_out>>

PlaceRecord(op, token_id, price, size, side, ext, r) ==
    [NoLast EXCEPT !.op = op, !.token_id = token_id, !.price = price,
                   !.size = size, !.side = side, !.ext = ext,
                   !.kind = r.kind, !.payload = r.payload, !.log = r.log,
                   !.pre = Pre]

PlaceBuyOrder ==
    /\ \E token_id \in TokenIds, price \in Prices, size \in Sizes,
          ext \in PlaceExt :
         last' = PlaceRecord("place_buy_order", token_id, price, size, BUY,
                     ext,
                     place_buy_order(is_initialized, client, trading_limits,
                                     token_id, price, size, ext))
    /\ UNCHANGED <<config, trading_limits, client, is_initialized, sessions,
                   init_results, r_in, r_out, f_in, f_out>>

PlaceSellOrder ==
    /\ \E token_id \in TokenIds, price \in Prices, size \in Sizes,
          ext \in PlaceExt :
         last' = PlaceRecord("place_sell_order", token_id, price, size, SELL,
                     ext,
                     place_sell_order(is_initialized, client, trading_limits,
                                      token_id, price, size, ext))
    /\ UNCHANGED <<config, trading_limits, client, is_initialized, sessions,
                   init_results, r_in, r_out, f_in, f_out>>

GetOrderStatus ==
    /\ \E order_id \in OrderIds :
         LET r == get_order_status(is_initialized, client, order_id)
         IN last' = [NoLast EXCEPT !.op = "get_order_status",
                                   !.order_id = order_id,
                                   !.kind = r.kind, !.payload = r.payload,
                                   !.status = r.status, !.log = r.log,
                                   !.pre = Pre]
    /\ UNCHANGED <<config, trading_limits, client, is_initialized, sessions,
                   init_results, r_in, r_out, f_in, f_out>>

\* cancel_order drops the readiness of the engine
CancelOrder_resets ==
    /\ \E order_id \in OrderIds :
         LET r == cancel_order(is_initialized, client, order_id)
         IN last' = [NoLast EXCEPT !.op = "cancel_order",
                                   !.order_id = order_id,
                                   !.kind = r.kind, !.payload = r.payload,
                                   !.log = r.log,
                                   !.pre = Pre]
    /\ is_initialized' = FALSE
    /\ UNCHANGED <<config, trading_limits, client, sessions,
                   init_results, r_in, r_out, f_in, f_out>>

CancelOrder ==
    /\ \E order_id \in OrderIds :
         LET r == cancel_order(is_initialized, client, order_id)
         IN last' = [NoLast EXCEPT !.op = "cancel_order",
                                   !.order_id = order_id,
                                   !.kind = r.kind, !.payload = r.payload,
                                   !.log = r.log,
                                   !.pre = Pre]
    /\ UNCHANGED <<config, trading_limits, client, is_initialized, sessions,
                   init_results, r_in, r_out, f_in, f_out>>

Next ==
    \/ InitializeClient
    \/ PlaceBuyOrder
    \/ PlaceSellOrder
    \/ GetOrderStatus
    \/ CancelOrder

Spec == Init /\ [][Next]_vars

(***************************************************************************)
(* The retry wrapper on its own: any max_retries, delay and func           *)
(***************************************************************************)
RetryInit ==
    /\ r_in \in RetryInputs
    /\ r_out = RetryIdle
    /\ config = [max_order_size |-> F(10000)]
    /\ trading_limits = get_trading_limits(config)
    /\ client = None
    /\ is_initialized = FALSE
    /\ sessions = 0
    /\ init_results = <<>>
    /\ last = NoLast
    /\ f_in = FunIn0
    /\ f_out = FunIdle

RetryCall ==
    /\ r_out.state = "idle"
    /\ LET w == wrapper(r_in.max_retries, r_in.delay, r_in.func)
       IN r_out' = [state |-> "done", kind |-> w.kind,
                    payload |-> w.payload, calls |-> w.calls,
                    sleeps |-> w.sleeps]
    /\ UNCHANGED <<r_in, config, trading_limits, client, is_initialized,
                   sessions, init_results, last, f_in, f_out>>

RetryNext == RetryCall

SpecRetry == RetryInit /\ [][RetryNext]_vars

(***************************************************************************)
(* _validate_order_params on its own: any limits the configuration can     *)
(* produce, any price, size and side                                       *)
(***************************************************************************)
\* the engine, untouched while a function is exercised on its own
EngineIdle ==
    /\ config = [max_order_size |-> F(10000)]
    /\ trading_limits = get_trading_limits(config)
    /\ client = None
    /\ is_initialized = FALSE
    /\ sessions = 0
    /\ init_results = <<>>
    /\ last = NoLast
    /\ r_in = RetryIn0
    /\ r_out = RetryIdle

\* max_order_size: 10.0, 1000.0 (the default), 0.05, 0.0, -1.0, NaN
ValMaxSizes == {F(10000), F(1000000), F(50), F(0), F(-1000), NaN}
\* -0.5, 0.0, 0.005, 0.01, 0.6, 1.0, 1.001, 1.5
ValPrices == {F(-500), F(0), F(5), F(10), F(600), F(1000), F(1001), F(1500),
              NaN, NotANumber}
\* -1.0, 0.0, 0.05, 0.1, 10.0, 10.001, 1000.001
ValSizes == {F(-1000), F(0), F(50), F(100), F(10000), F(10001), F(1000001),
             NaN, NotANumber}
ValInputs ==
    [fn : {"_validate_order_params"},
     limits : {get_trading_limits([max_order_size |-> m]) : m \in ValMaxSizes},
     price : ValPrices, size : ValSizes, side : {BUY, SELL}]

ValidateInit ==
    /\ f_in \in ValInputs
    /\ f_out = FunIdle
    /\ EngineIdle

ValidateOrderParams ==
    /\ f_out.state = "idle"
    /\ f_out' = [state |-> "done",
                 rule |-> validate_order_params(f_in.limits, f_in.price,
                                                f_in.size, f_in.side)]
    /\ UNCHANGED <<f_in, config, trading_limits, client, is_initialized,
                   sessions, init_results, last, r_in, r_out>>

ValidateNext == ValidateOrderParams

SpecValidate == ValidateInit /\ [][ValidateNext]_vars

(***************************************************************************)
(* _validate_token_id on its own: every string up to MaxTokenLen           *)
(***************************************************************************)
TokenStrings == UNION {[1..n -> TokenChars] : n \in 0..MaxTokenLen}
TokenInputs ==
    [fn : {"_validate_token_id"},
     token_id : {Str(t) : t \in TokenStrings} \cup {NotAStr}]

TokenInit ==
    /\ f_in \in TokenInputs
    /\ f_out = FunIdle
    /\ EngineIdle

ValidateTokenId ==
    /\ f_out.state = "idle"
    /\ f_out' = [state |-> "done", ok |-> validate_token_id(f_in.token_id)]
    /\ UNCHANGED <<f_in, config, trading_limits, client, is_initialized,
                   sessions, init_results, last, r_in, r_out>>

TokenNext == ValidateTokenId

SpecToken == TokenInit /\ [][TokenNext]_vars

(***************************************************************************)
(* PolymarketConfig (config.py).  A setting of the environment is a str    *)
(* (a sequence of characters) or is unset.                                 *)
(***************************************************************************)
Unset == [k |-> "unset", s |-> <<>>]
\* os.getenv(name, default)
Getenv(setting, default) == IF setting.k = "unset" THEN default ELSE setting
\* `not value` for an Optional[str]
Falsy(setting) == setting.k = "unset" \/ setting.s = <<>>

Digits == {"0", "1", "2", "3", "4", "5", "6", "7", "8", "9"}
HexChars == Digits \cup {"a", "b", "c", "d", "e", "f",
                         "A", "B", "C", "D", "E", "F"}
Whitespace == {" ", "\n"}
DigitVal(c) ==
    CHOOSE d \in 0..9 :
        <<"0", "1", "2", "3", "4", "5", "6", "7", "8", "9">>[d + 1] = c
RECURSIVE DecVal(_)
DecVal(ds) ==
    IF ds = <<>> THEN 0
    ELSE 10 * DecVal(SubSeq(ds, 1, Len(ds) - 1)) + DigitVal(ds[Len(ds)])
RECURSIVE Pow10(_)
Pow10(n) == IF n <= 0 THEN 1 ELSE 10 * Pow10(n - 1)
AllDigits(ds) == \A i \in 1..Len(ds) : ds[i] \in Digits
Rep(c, n) == [i \in 1..n |-> c]

\* str.strip() as int() and float() apply it
RECURSIVE LStrip(_)
LStrip(t) ==
    IF t # <<>> /\ Head(t) \in Whitespace THEN LStrip(Tail(t)) ELSE t
RECURSIVE RStrip(_)
RStrip(t) ==
    IF t # <<>> /\ t[Len(t)] \in Whitespace
    THEN RStrip(SubSeq(t, 1, Len(t) - 1)) ELSE t
Strip(t) == RStrip(LStrip(t))
Signed(t) == t # <<>> /\ Head(t) \in {"-", "+"}
Unsign(t) == IF Signed(t) THEN Tail(t) ELSE t
SignOf(t) == IF t # <<>> /\ Head(t) = "-" THEN -1 ELSE 1

\* int(text) for a decimal text: ok is false when it raises ValueError
PyInt(t) ==
    LET body == Unsign(Strip(t))
    IN IF body # <<>> /\ AllDigits(body)
       THEN [ok |-> TRUE, v |-> SignOf(Strip(t)) * DecVal(body)]
       ELSE [ok |-> FALSE, v |-> 0]

\* float(text) for the texts "nan", digits and digits "." digits with at
\* most three digits after the point (exact in units of 0.001); ok is false
\* when it raises ValueError
PyFloat(t) ==
    LET body == Unsign(Strip(t))
        dots == {i \in 1..Len(body) : body[i] = "."}
        dot == CHOOSE i \in dots : TRUE
        int == IF dots = {} THEN body ELSE SubSeq(body, 1, dot - 1)
        frac == IF dots = {} THEN <<>> ELSE SubSeq(body, dot + 1, Len(body))
    IN IF body = <<"n", "a", "n">>
       THEN [ok |-> TRUE, v |-> NaN]
       ELSE IF /\ Cardinality(dots) <= 1
               /\ AllDigits(int) /\ AllDigits(frac)
               /\ Len(int) + Len(frac) >= 1
               /\ Len(frac) <= 3
       THEN [ok |-> TRUE,
             v |-> F(SignOf(Strip(t))
                       * (1000 * DecVal(int)
                            + DecVal(frac) * Pow10(3 - Len(frac))))]
       ELSE [ok |-> FALSE, v |-> NaN]

\* config.py:17, 20, 21
VALID_SIGNATURE_TYPES == {1, 2}
POLYGON_MAINNET == 137
POLYGON_TESTNET == 80001
PRIVATE_KEY_LEN == 64
ADDRESS_LEN == 40

\* str.replace("0x", ""): every occurrence, left to right
RECURSIVE Replace0x(_)
Replace0x(t) ==
    IF Len(t) < 2 THEN t
    ELSE IF t[1] = "0" /\ t[2] = "x"
    THEN Replace0x(SubSeq(t, 3, Len(t)))
    ELSE <<t[1]>> \o Replace0x(Tail(t))

\* re.match(r"^[0-9a-fA-F]+$", t); `$` also matches just before a newline
\* that ends the string
ReMatchHex(t) ==
    \E n \in 1..Len(t) :
        /\ \A i \in 1..n : t[i] \in HexChars
        /\ \/ n = Len(t)
           \/ n = Len(t) - 1 /\ t[Len(t)] = "\n"

\* config.py:74-83
is_valid_private_key(private_key) ==
    IF Falsy(private_key) THEN FALSE
    ELSE LET clean_key == Replace0x(private_key.s)
         IN Len(clean_key) = PRIVATE_KEY_LEN /\ ReMatchHex(clean_key)

\* config.py:85-96
is_valid_ethereum_address(address) ==
    IF Falsy(address) THEN FALSE
    ELSE LET clean_address == Replace0x(address.s)
         IN Len(clean_address) = ADDRESS_LEN /\ ReMatchHex(clean_address)

\* the ValueError is not caught
get_signature_type_uncaught(env) ==
    LET p == PyInt(Getenv(env.signature_type, Str(<<"1">>)).s)
    IN IF ~p.ok THEN [ok |-> FALSE, v |-> 0]
       ELSE IF p.v \notin VALID_SIGNATURE_TYPES THEN [ok |-> TRUE, v |-> 1]
       ELSE [ok |-> TRUE, v |-> p.v]

\* config.py:60-72; ok is false when it raises
get_signature_type(env) ==
    LET p == PyInt(Getenv(env.signature_type, Str(<<"1">>)).s)
    IN IF ~p.ok THEN [ok |-> TRUE, v |-> 1]
       ELSE IF p.v \notin VALID_SIGNATURE_TYPES THEN [ok |-> TRUE, v |-> 1]
       ELSE [ok |-> TRUE, v |-> p.v]

NoConfig ==
    [chain_id |-> 0, private_key |-> Unset, proxy_address |-> Unset,
     signature_type |-> 0, max_order_size |-> NaN]

\* config.py:23-40, PolymarketConfig.__init__: the configuration, or the
\* setting whose conversion raises ValueError
config_init(env) ==
    LET chain == PyInt(Getenv(env.chain_id, Str(<<"1", "3", "7">>)).s)
        sig == get_signature_type(env)
        max == PyFloat(Getenv(env.max_order_size,
                              Str(<<"1", "0", "0", "0", ".", "0">>)).s)
        ct == PyInt(Getenv(env.connection_timeout, Str(<<"3", "0">>)).s)
        rt == PyInt(Getenv(env.request_timeout, Str(<<"1", "0">>)).s)
        mr == PyInt(Getenv(env.max_retries, Str(<<"3">>)).s)
        Raise(name) == [state |-> "error", error |-> name, cfg |-> NoConfig]
    IN IF ~chain.ok THEN Raise("POLYMARKET_CHAIN_ID")
       ELSE IF ~sig.ok THEN Raise("POLYMARKET_SIGNATURE_TYPE")
       ELSE IF ~max.ok THEN Raise("POLYMARKET_MAX_ORDER_SIZE")
       ELSE IF ~ct.ok THEN Raise("POLYMARKET_CONNECTION_TIMEOUT")
       ELSE IF ~rt.ok THEN Raise("POLYMARKET_REQUEST_TIMEOUT")
       ELSE IF ~mr.ok THEN Raise("POLYMARKET_MAX_RETRIES")
       ELSE [state |-> "loaded", error |-> "",
             cfg |-> [chain_id |-> chain.v,
                      private_key |-> env.private_key,
                      proxy_address |-> env.proxy_address,
                      signature_type |-> sig.v,
                      max_order_size |-> max.v]]

\* config.py:105-124, the errors collected by validate
config_errors(cfg) ==
    (IF Falsy(cfg.private_key)
     THEN <<"POLYMARKET_PRIVATE_KEY is required">>
     ELSE IF ~is_valid_private_key(cfg.private_key)
     THEN <<"POLYMARKET_PRIVATE_KEY has invalid format">>
     ELSE <<>>)
    \o (IF Falsy(cfg.proxy_address)
        THEN <<"POLYMARKET_PROXY_ADDRESS is required">>
        ELSE IF ~is_valid_ethereum_address(cfg.proxy_address)
        THEN <<"POLYMARKET_PROXY_ADDRESS has invalid format">>
        ELSE <<>>)
    \o (IF FLe(cfg.max_order_size, F(0))
        THEN <<"POLYMARKET_MAX_ORDER_SIZE must be positive">>
        ELSE <<>>)

\* config.py:120-121, the warnings collected by validate
config_warnings(cfg) ==
    IF cfg.chain_id \notin {POLYGON_MAINNET, POLYGON_TESTNET}
    THEN <<"Unusual chain ID">>
    ELSE <<>>

\* config.py:98-139
validate(cfg) == config_errors(cfg) = <<>>

(***************************************************************************)
(* The configuration on its own: load the settings (__init__), then        *)
(* validate the configuration and hand its limits to the engine            *)
(***************************************************************************)
\* 64 hex characters; with the 0x prefix; a text that is no key; 0x in the
\* middle of 64 hex characters; 63 hex characters and a newline
EnvPrivateKeys ==
    {Unset,
     Str(Rep("a", PRIVATE_KEY_LEN)),
     Str(<<"0", "x">> \o Rep("a", PRIVATE_KEY_LEN)),
     Str(<<"g", "g">>),
     Str(Rep("a", 32) \o <<"0", "x">> \o Rep("a", 32)),
     Str(Rep("a", PRIVATE_KEY_LEN - 1) \o <<"\n">>)}
EnvProxyAddresses ==
    {Unset,
     Str(<<"0", "x">> \o Rep("b", ADDRESS_LEN)),
     Str(<<"g", "g">>),
     Str(Rep("b", ADDRESS_LEN - 1) \o <<"\n">>)}
EnvChainIds ==
    {Unset, Str(<<"8", "0", "0", "0", "1">>), Str(<<"1">>), Str(<<"x">>)}
EnvSignatureTypes ==
    {Unset, Str(<<"1">>), Str(<<"2">>), Str(<<"3">>), Str(<<"-", "1">>),
     Str(<<" ", "2">>), Str(<<"2", ".", "0">>), Str(<<"x">>)}
EnvMaxOrderSizes ==
    {Unset, Str(<<"5", "0", "0", ".", "0">>), Str(<<"0", ".", "0", "5">>),
     Str(<<"0">>), Str(<<"n", "a", "n">>), Str(<<"a", "b", "c">>)}
Envs ==
    [fn : {"PolymarketConfig"},
     private_key : EnvPrivateKeys,
     proxy_address : EnvProxyAddresses,
     chain_id : EnvChainIds,
     signature_type : EnvSignatureTypes,
     max_order_size : EnvMaxOrderSizes,
     connection_timeout : {Unset, Str(<<"x">>)},
     request_timeout : {Unset},
     max_retries : {Unset, Str(<<"5">>)}]

ConfigIdle ==
    [state |-> "idle", error |-> "", cfg |-> NoConfig, valid |-> FALSE,
     errors |-> <<>>, warnings |-> <<>>,
     limits |-> get_trading_limits(NoConfig)]

ConfigInit ==
    /\ f_in \in Envs
    /\ f_out = ConfigIdle
    /\ EngineIdle

\* config = PolymarketConfig()  (cli.py:189)
ConfigLoad ==
    /\ f_out.state = "idle"
    /\ LET c == config_init(f_in)
       IN f_out' = [ConfigIdle EXCEPT !.state = c.state, !.error = c.error,
                                      !.cfg = c.cfg]
    /\ UNCHANGED <<f_in, config, trading_limits, client, is_initialized,
                   sessions, init_results, last, r_in, r_out>>

\* config.validate() and PolymarketTrader(config)  (cli.py:190-195)
ConfigValidate ==
    /\ f_out.state = "loaded"
    /\ f_out' = [f_out EXCEPT !.state = "validated",
                              !.valid = validate(f_out.cfg),
                              !.errors = config_errors(f_out.cfg),
                              !.warnings = config_warnings(f_out.cfg),
                              !.limits = get_trading_limits(f_out.cfg)]
    /\ UNCHANGED <<f_in, config, trading_limits, client, is_initialized,
                   sessions, init_results, last, r_in, r_out>>

ConfigNext ==
    \/ ConfigLoad
    \/ ConfigValidate

SpecConfig == ConfigInit /\ [][ConfigNext]_vars

(***************************************************************************)
(* The command line (cli.py).  args is the argparse namespace: command     *)
(* ("" when no subcommand was given), token_id (a str), price and size     *)
(* (floats, converted by type=float), side ("buy" or "sell") and dry_run.  *)
(***************************************************************************)
\* cli.py:94: the literals 0.01 and 1.0, in units of 0.001
CLI_MIN_PRICE == 10
CLI_MAX_PRICE == 1000

\* str.upper() of the two choices of --side
Upper(side) == IF side = "buy" THEN "BUY" ELSE "SELL"

\* cli.py:80-102
validate_trade_args(args) ==
    IF Falsy(args.token_id) THEN FALSE
    ELSE IF args.price = NotANumber THEN FALSE
    ELSE IF args.size = NotANumber THEN FALSE
    ELSE IF ~(FLe(F(CLI_MIN_PRICE), args.price)
                /\ FLe(args.price, F(CLI_MAX_PRICE))) THEN FALSE
    ELSE IF FLe(args.size, F(0)) THEN FALSE
    ELSE TRUE

\* the dry_run flag is not looked at
handle_trade_command_live(args, is_init, cl, limits, ext) ==
    LET side == args.side
        r == IF side = "buy"
             THEN place_buy_order(is_init, cl, limits, args.token_id,
                                  args.price, args.size, ext)
             ELSE place_sell_order(is_init, cl, limits, args.token_id,
                                   args.price, args.size, ext)
    IN [success |-> r.kind = "return" /\ r.payload = "True",
        op |-> IF side = "buy" THEN "place_buy_order"
               ELSE "place_sell_order",
        kind |-> r.kind, payload |-> r.payload, log |-> r.log]

\* cli.py:123-168: the result, the engine operation used and the calls made
handle_trade_command(args, is_init, cl, limits, ext) ==
    LET side == args.side
    IN IF args.dry_run
       THEN LET rule == validate_order_params(limits, args.price, args.size,
                                              Upper(side))
            IN [success |-> rule = 0,
                op |-> "_validate_order_params",
                kind |-> IF rule = 0 THEN "return" ELSE "raise",
                payload |-> IF rule = 0 THEN "None" ELSE "ValidationError",
                log |-> <<Ev("_validate_order_params", NoOrder, "",
                             IF rule = 0 THEN "None"
                             ELSE "ValidationError")>>]
       ELSE LET r == IF side = "buy"
                     THEN place_buy_order(is_init, cl, limits, args.token_id,
                                          args.price, args.size, ext)
                     ELSE place_sell_order(is_init, cl, limits,
                                           args.token_id, args.price,
                                           args.size, ext)
            IN [success |-> r.kind = "return" /\ r.payload = "True",
                op |-> IF side = "buy" THEN "place_buy_order"
                       ELSE "place_sell_order",
                kind |-> r.kind, payload |-> r.payload, log |-> r.log]

NoTrade == [success |-> FALSE, op |-> "", kind |-> "", payload |-> "",
            log |-> <<>>]
NoInit == [kind |-> "", payload |-> "", calls |-> 0, sleeps |-> <<>>,
           st |-> [client |-> None, is_initialized |-> FALSE,
                   sessions |-> 0],
           log |-> <<>>]

\* the result of initialize_client is not looked at
main_unchecked_init(env, args, init_exts, place_ext) ==
    LET c == config_init(env)
        limits == get_trading_limits(c.cfg)
        i == initialize_client_call(NoInit.st, init_exts)
        t == handle_trade_command(args, i.st.is_initialized, i.st.client,
                                  limits, place_ext)
        Out(stage, exit, trader, init, trade) ==
            [stage |-> stage, exit |-> exit, trader |-> trader,
             cfg |-> c.cfg, init |-> init, trade |-> trade]
    IN IF args.command = ""
       THEN Out("help", 0, FALSE, NoInit, NoTrade)
       ELSE IF c.state = "error"
       THEN Out("PolymarketConfig", 1, FALSE, NoInit, NoTrade)
       ELSE IF ~validate(c.cfg)
       THEN Out("validate", 1, FALSE, NoInit, NoTrade)
       ELSE IF i.kind = "raise"
       THEN Out("initialize_client", 1, TRUE, i, NoTrade)
       ELSE IF args.command = "trade"
       THEN IF ~validate_trade_args(args)
            THEN Out("validate_trade_args", 1, TRUE, i, NoTrade)
            ELSE Out("handle_trade_command", IF t.success THEN 0 ELSE 1,
                     TRUE, i, t)
       ELSE Out("unknown", 1, TRUE, i, NoTrade)

\* cli.py:171-212, main, and the exit status of the process: the stage it
\* ended at, whether a PolymarketTrader was constructed, and what
\* initialize_client and handle_trade_command did.  An exception that leaves
\* main (the ValueError of PolymarketConfig()) ends the process with status
\* 1, under cli.py:215-224 and under the interpreter alike.
main(env, args, init_exts, place_ext) ==
    LET c == config_init(env)
        limits == get_trading_limits(c.cfg)
        i == initialize_client_call(NoInit.st, init_exts)
        t == handle_trade_command(args, i.st.is_initialized, i.st.client,
                                  limits, place_ext)
        Out(stage, exit, trader, init, trade) ==
            [stage |-> stage, exit |-> exit, trader |-> trader,
             cfg |-> c.cfg, init |-> init, trade |-> trade]
    IN IF args.command = ""
       THEN Out("help", 0, FALSE, NoInit, NoTrade)
       ELSE IF c.state = "error"
       THEN Out("PolymarketConfig", 1, FALSE, NoInit, NoTrade)
       ELSE IF ~validate(c.cfg)
       THEN Out("validate", 1, FALSE, NoInit, NoTrade)
       ELSE IF i.kind = "raise" \/ i.payload # "True"
       THEN Out("initialize_client", 1, TRUE, i, NoTrade)
       ELSE IF args.command = "trade"
       THEN IF ~validate_trade_args(args)
            THEN Out("validate_trade_args", 1, TRUE, i, NoTrade)
            ELSE Out("handle_trade_command", IF t.success THEN 0 ELSE 1,
                     TRUE, i, t)
       ELSE Out("unknown", 1, TRUE, i, NoTrade)

\* the environment: complete; no private key; a chain id that is no
\* integer; max order size 0.05; max order size nan
CliEnv0 ==
    [private_key |-> Str(Rep("a", PRIVATE_KEY_LEN)),
     proxy_address |-> Str(<<"0", "x">> \o Rep("b", ADDRESS_LEN)),
     chain_id |-> Unset, signature_type |-> Unset, max_order_size |-> Unset,
     connection_timeout |-> Unset, request_timeout |-> Unset,
     max_retries |-> Unset]
CliEnvs ==
    {CliEnv0,
     [CliEnv0 EXCEPT !.private_key = Unset],
     [CliEnv0 EXCEPT !.chain_id = Str(<<"x">>)],
     [CliEnv0 EXCEPT !.max_order_size = Str(<<"0", ".", "0", "5">>)],
     [CliEnv0 EXCEPT !.max_order_size = Str(<<"n", "a", "n">>)]}
\* --price 0.6, 0.005, 1.5, nan; --size 10.0, 0.0, 0.05, nan
CliArgs ==
    [command : {"trade"},
     token_id : {Str(<<"a", "_">>), Str(<<"a", " ">>), Str(<<>>)},
     price : {F(600), F(5), F(1500), NaN},
     size : {F(10000), F(0), F(50), NaN},
     side : {"buy", "sell"},
     dry_run : BOOLEAN]
    \cup {[command |-> "", token_id |-> NotAStr, price |-> NotANumber,
           size |-> NotANumber, side |-> "buy", dry_run |-> FALSE]}
\* what the external calls do: the first initialize attempt is the only one
\* that is ever made
CliInitPlans == {p \in InitPlans : \A n \in 2..DEFAULT_MAX_RETRIES : p[n] = "ok"}
CliInputs ==
    [fn : {"main"}, env : CliEnvs, args : CliArgs,
     init_exts : CliInitPlans, place_ext : PlaceExt]

CliIdle ==
    [state |-> "idle", stage |-> "", exit |-> -1, trader |-> FALSE,
     cfg |-> NoConfig, init |-> NoInit, trade |-> NoTrade]

CliInit ==
    /\ f_in \in CliInputs
    /\ f_out = CliIdle
    /\ EngineIdle

\* one run of the command: main, the PolymarketTrader it constructs and the
\* engine operations it makes on it
Main ==
    /\ f_out.state = "idle"
    /\ \E m \in {main(f_in.env, f_in.args, f_in.init_exts, f_in.place_ext)} :
       LET pre == [client |-> m.init.st.client,
                   is_initialized |-> m.init.st.is_initialized,
                   trading_limits |-> get_trading_limits(m.cfg)]
       IN /\ f_out' = [state |-> "done", stage |-> m.stage, exit |-> m.exit,
                       trader |-> m.trader, cfg |-> m.cfg, init |-> m.init,
                       trade |-> m.trade]
          /\ IF m.trader
             THEN /\ config' = m.cfg
                  /\ trading_limits' = get_trading_limits(m.cfg)
                  /\ client' = m.init.st.client
                  /\ is_initialized' = m.init.st.is_initialized
                  /\ sessions' = m.init.st.sessions
                  /\ init_results' = <<m.init.payload>>
                  /\ last' =
                       IF m.trade.op \in {"place_buy_order",
                                          "place_sell_order"}
                       THEN [NoLast EXCEPT
                               !.op = m.trade.op,
                               !.token_id = f_in.args.token_id,
                               !.price = f_in.args.price,
                               !.size = f_in.args.size,
                               !.side = Upper(f_in.args.side),
                               !.ext = f_in.place_ext,
                               !.kind = m.trade.kind,
                               !.payload = m.trade.payload,
                               !.log = m.trade.log,
                               !.pre = pre]
                       ELSE [NoLast EXCEPT
                               !.op = "initialize_client",
                               !.exts = f_in.init_exts,
                               !.kind = m.init.kind,
                               !.payload = m.init.payload,
                               !.init_log = m.init.log,
                               !.calls = m.init.calls,
                               !.sleeps = m.init.sleeps]
             ELSE UNCHANGED <<config, trading_limits, client, is_initialized,
                              sessions, init_results, last>>
    /\ UNCHANGED <<f_in, r_in, r_out>>

CliNext == Main

SpecCli == CliInit /\ [][CliNext]_vars

(***************************************************************************)
(* place_buy_order and place_sell_order side by side: both are given the   *)
(* same engine state, arguments and behaviour of the external capability   *)
(***************************************************************************)
\* the engine before initialize_client, after a failed one that constructed
\* a session, and after a successful one
PairEngines ==
    {[is_initialized |-> FALSE, client |-> None],
     [is_initialized |-> FALSE, client |-> [sid |-> 1, creds |-> 0]],
     [is_initialized |-> TRUE, client |-> [sid |-> 1, creds |-> 1]]}
PairInputs ==
    [fn : {"place_buy_order, place_sell_order"},
     engine : PairEngines,
     limits : {get_trading_limits(c) : c \in Configs},
     token_id : TokenIds, price : Prices \cup {NaN},
     size : Sizes \cup {NaN}, ext : PlaceExt]

PairInit ==
    /\ f_in \in PairInputs
    /\ f_out = FunIdle
    /\ EngineIdle

PlacePair ==
    /\ f_out.state = "idle"
    /\ f_out' =
         [state |-> "done",
          buy |-> place_buy_order(f_in.engine.is_initialized,
                      f_in.engine.client, f_in.limits, f_in.token_id,
                      f_in.price, f_in.size, f_in.ext),
          sell |-> place_sell_order(f_in.engine.is_initialized,
                       f_in.engine.client, f_in.limits, f_in.token_id,
                       f_in.price, f_in.size, f_in.ext)]
    /\ UNCHANGED <<f_in, config, trading_limits, client, is_initialized,
                   sessions, init_results, last, r_in, r_out>>

PairNext == PlacePair

SpecPair == PairInit /\ [][PairNext]_vars

(***************************************************************************)
(* handle_trade_command with and without --dry-run, side by side: both are *)
(* given the same arguments, the same ready engine and the same behaviour  *)
(* of the external capability                                              *)
(***************************************************************************)
\* the engine after a successful initialize_client
ReadyEngine == [is_initialized |-> TRUE, client |-> [sid |-> 1, creds |-> 1]]
\* max order size 1000.0 (the default), 10.0 and 0.05
DryLimits ==
    {get_trading_limits([max_order_size |-> m]) :
        m \in {F(1000000), F(10000), F(50)}}
DryInputs ==
    [fn : {"handle_trade_command"},
     args : {a \in CliArgs : a.command = "trade" /\ ~a.dry_run},
     limits : DryLimits, ext : PlaceExt]

DryInit ==
    /\ f_in \in DryInputs
    /\ f_out = FunIdle
    /\ EngineIdle

HandleTradePair ==
    /\ f_out.state = "idle"
    /\ f_out' =
         [state |-> "done",
          precheck |-> validate_trade_args(f_in.args),
          dry |-> handle_trade_command([f_in.args EXCEPT !.dry_run = TRUE],
                      ReadyEngine.is_initialized, ReadyEngine.client,
                      f_in.limits, f_in.ext),
          real |-> handle_trade_command(f_in.args,
                       ReadyEngine.is_initialized, ReadyEngine.client,
                       f_in.limits, f_in.ext)]
    /\ UNCHANGED <<f_in, config, trading_limits, client, is_initialized,
                   sessions, init_results, last, r_in, r_out>>

DryNext == HandleTradePair

SpecDry == DryInit /\ [][DryNext]_vars

(***************************************************************************)
(* Vocabulary of the properties                                            *)
(***************************************************************************)
PlaceOps == {"place_buy_order", "place_sell_order"}
OrderOps == PlaceOps \cup {"get_order_status", "cancel_order"}
IsPlace == last.op \in PlaceOps
IsInitialize == last.op = "initialize_client"
\* the engine state the last operation started from was not ready
StartedNotReady == ~last.pre.is_initialized \/ last.pre.client = None
Raised(e) == last.kind = "raise" /\ last.payload = e
Returned(v) == last.kind = "return" /\ last.payload = v
\* the arguments of the last place order pass validation
TokenValid == validate_token_id(last.token_id)
ParamsValid ==
    validate_order_params(last.pre.trading_limits, last.price, last.size,
                          last.side) = 0
\* positions of the calls of the last operation's trace
Calls(name) == {i \in 1..Len(last.log) : last.log[i].call = name}
ExternalCalls == Calls("create_order") \cup Calls("post_order")
StateAsBefore ==
    /\ client = last.pre.client
    /\ is_initialized = last.pre.is_initialized
    /\ trading_limits = last.pre.trading_limits

(***************************************************************************)
(* C1: a create_order or post_order call made by a place order call comes  *)
(* after the token id check and the order parameter check of that call     *)
(* have both passed; a call whose validation fails makes neither call.     *)
(***************************************************************************)
C1_ValidationBeforeSigning ==
    IsPlace =>
        /\ \A i \in ExternalCalls :
             /\ TokenValid /\ ParamsValid
             /\ \E j \in Calls("_validate_token_id") :
                    j < i /\ last.log[j].result = "True"
             /\ \E j \in Calls("_validate_order_params") :
                    j < i /\ last.log[j].result = "None"
        /\ (~TokenValid \/ ~ParamsValid) => ExternalCalls = {}

C1_Witness ==
    /\ last.op = "place_sell_order"
    /\ Calls("create_order") # {}
    /\ Calls("post_order") # {}
    /\ TokenValid /\ ParamsValid

(***************************************************************************)
(* C2: on an engine that is not ready, place_buy_order, place_sell_order,  *)
(* get_order_status and cancel_order raise TradingConnectionError before   *)
(* any validation and any external call, and leave the engine state as it  *)
(* was.                                                                    *)
(***************************************************************************)
C2_NotReadyRaises ==
    (last.op \in OrderOps /\ StartedNotReady) =>
        /\ Raised("TradingConnectionError")
        /\ last.log = <<>>
        /\ StateAsBefore

\* the flag is false while a session is held
C2_Witness ==
    /\ last.op = "cancel_order"
    /\ ~last.pre.is_initialized
    /\ last.pre.client # None
    /\ Raised("TradingConnectionError")

(***************************************************************************)
(* C3 as stated: place order on an engine that is not ready returns False  *)
(* (it does not raise) and does not call create_order.                     *)
(***************************************************************************)
C3_Original ==
    (IsPlace /\ StartedNotReady) =>
        /\ Returned("False")
        /\ Calls("create_order") = {}

(***************************************************************************)
(* C3 amended: place order on an engine that is not ready raises           *)
(* TradingConnectionError (it does not return False) and does not call     *)
(* create_order.                                                           *)
(***************************************************************************)
C3_Amended ==
    (IsPlace /\ StartedNotReady) =>
        /\ Raised("TradingConnectionError")
        /\ ~Returned("False")
        /\ Calls("create_order") = {}

C3_Witness ==
    /\ last.op = "place_buy_order"
    /\ StartedNotReady
    /\ TokenValid /\ ParamsValid
    /\ last.ext.create = "ok"
    /\ Raised("TradingConnectionError")

C7_InitializeNeverRaises ==
    IsInitialize =>
        /\ last.kind = "return"
        /\ last.payload \in {"True", "False"}
        /\ last.calls >= 1
        /\ last.exts[last.calls] # "ok" =>
              Returned("False") /\ ~is_initialized

C7_Witness ==
    /\ IsInitialize
    /\ last.exts[1] = "create_or_derive_api_creds"
    /\ Returned("False")
    /\ ~is_initialized
    /\ client # None

(***************************************************************************)
(* C8: within one initialize_client call an attempt that raises is         *)
(* followed by another attempt (up to DEFAULT_MAX_RETRIES): when the first *)
(* attempt raises and the external calls of the second succeed, the call   *)
(* returns True after two attempts and the engine is ready.                *)
(***************************************************************************)
C8_RetryAfterFailedAttempt ==
    (IsInitialize /\ last.exts[1] # "ok" /\ last.exts[2] = "ok") =>
        /\ Returned("True")
        /\ last.calls = 2
        /\ is_initialized
        /\ client # None

(***************************************************************************)
(* C9: a failed initialize_client is not sticky: whatever earlier calls    *)
(* returned, a call whose external calls all succeed returns True and      *)
(* leaves the engine ready, and while the latest initialize_client         *)
(* returned True a place order call does not raise                         *)
(* TradingConnectionError.                                                 *)
(***************************************************************************)
C9_NoStickyFailure ==
    /\ (IsInitialize /\ \A i \in DOMAIN last.exts : last.exts[i] = "ok") =>
          /\ Returned("True")
          /\ is_initialized
          /\ client # None
    /\ (/\ IsPlace
        /\ init_results # <<>>
        /\ init_results[Len(init_results)] = "True") =>
          ~Raised("TradingConnectionError")

C9_Witness ==
    /\ IsPlace
    /\ init_results = <<"False", "True">>
    /\ last.kind = "return"

(***************************************************************************)
(* C10: for max_retries N >= 1 and k < N, wrapping a func that raises on   *)
(* its first k invocations and then returns v gives a call that returns v  *)
(* after exactly k+1 invocations of func.                                  *)
(***************************************************************************)
C10_RetrySuccess ==
    (r_out.state = "done" /\ r_in.max_retries >= 1) =>
        \A k \in 0..(r_in.max_retries - 1) :
            (/\ \A i \in 1..k : r_in.func[i].kind = "raise"
             /\ r_in.func[k + 1].kind = "return") =>
                /\ r_out.kind = "return"
                /\ r_out.payload = r_in.func[k + 1].payload
                /\ r_out.calls = k + 1

\* the success comes at the last permitted attempt
C10_Witness ==
    /\ r_out.state = "done"
    /\ r_in.max_retries = DEFAULT_MAX_RETRIES
    /\ \A i \in 1..(r_in.max_retries - 1) : r_in.func[i].kind = "raise"
    /\ r_in.func[r_in.max_retries].kind = "return"
    /\ r_out.kind = "return"
    /\ r_out.calls = r_in.max_retries

(***************************************************************************)
(* C11: for max_retries N >= 1, wrapping a func that raises on every       *)
(* invocation gives a call that invokes func exactly N times and then      *)
(* raises the exception of the N-th invocation.                            *)
(***************************************************************************)
C11_RetryExhaustion ==
    (/\ r_out.state = "done"
     /\ r_in.max_retries >= 1
     /\ \A i \in 1..r_in.max_retries : r_in.func[i].kind = "raise") =>
        /\ r_out.kind = "raise"
        /\ r_out.calls = r_in.max_retries
        /\ r_out.payload = r_in.func[r_in.max_retries].payload

\* the last exception differs from the ones before it
C11_Witness ==
    /\ r_out.state = "done"
    /\ r_in.max_retries = DEFAULT_MAX_RETRIES
    /\ \A i \in 1..r_in.max_retries : r_in.func[i].kind = "raise"
    /\ \A i \in 1..(r_in.max_retries - 1) : r_in.func[i].payload = "E1"
    /\ r_in.func[r_in.max_retries].payload = "E2"
    /\ r_out.kind = "raise"
    /\ r_out.payload = "E2"

(***************************************************************************)
(* C12: a wrapper call that invokes func m times sleeps exactly            *)
(* delay*2^0, delay*2^1, ..., delay*2^(m-2), once between consecutive      *)
(* attempts: nothing before the first attempt, after a success or after    *)
(* the final failure.                                                      *)
(***************************************************************************)
C12_BackoffSchedule ==
    r_out.state = "done" =>
        /\ Len(r_out.sleeps) = (IF r_out.calls = 0 THEN 0 ELSE r_out.calls - 1)
        /\ \A i \in 1..Len(r_out.sleeps) :
              r_out.sleeps[i] = r_in.delay * (2 ^ (i - 1))

\* three attempts, all failing, with a positive delay
C12_Witness ==
    /\ r_out.state = "done"
    /\ r_in.delay = 1
    /\ r_out.calls = 3
    /\ r_out.kind = "raise"
    /\ r_out.sleeps = <<1, 2>>

(***************************************************************************)
(* Vocabulary of the validation properties: the rules as conditions an     *)
(* input has to meet, in the arithmetic of floats (no comparison with NaN  *)
(* is met).                                                                *)
(***************************************************************************)
ValDone == f_out.state = "done"
Accepted == f_out.rule = 0
\* a ValidationError was raised
Rejected == f_out.rule \in 1..7
RuleMet(n) ==
    CASE n = 1 -> IsNumber(f_in.price) /\ FGt(f_in.price, F(0))
      [] n = 2 -> IsNumber(f_in.size) /\ FGt(f_in.size, F(0))
      [] n = 3 -> FLe(f_in.limits.min_price, f_in.price)
      [] n = 4 -> FLe(f_in.price, F(MAX_PRICE))
      [] n = 5 -> FLe(f_in.limits.min_order_size, f_in.size)
      [] n = 6 -> FLe(f_in.size, f_in.limits.max_order_size)
      [] n = 7 -> FLe(FMul(f_in.price, f_in.size),
                      FMul(F(MAX_PRICE), f_in.limits.max_order_size))
RulesViolated == {n \in 1..7 : ~RuleMet(n)}
Lowest(S) == CHOOSE n \in S : \A m \in S : n <= m

C14_PriceOutOfRangeRejected ==
    (ValDone /\ (FLe(f_in.price, F(0)) \/ FGt(f_in.price, F(MAX_PRICE)))) =>
        Rejected

\* a price just above 1.0 with an acceptable size
C14_Witness ==
    /\ ValDone
    /\ f_in.price = F(1001)
    /\ RuleMet(2) /\ RuleMet(5) /\ RuleMet(6)
    /\ f_out.rule = 4

(***************************************************************************)
(* C15: every size s with s <= 0, s > max_order_size or                    *)
(* s < min_order_size is rejected with a ValidationError, whatever the     *)
(* price, the side and the limits.                                         *)
(***************************************************************************)
C15_SizeOutOfRangeRejected ==
    (/\ ValDone
     /\ \/ FLe(f_in.size, F(0))
        \/ FGt(f_in.size, f_in.limits.max_order_size)
        \/ FLt(f_in.size, f_in.limits.min_order_size)) =>
        Rejected

\* a positive size below min_order_size with an acceptable price
C15_Witness ==
    /\ ValDone
    /\ f_in.size = F(50)
    /\ RuleMet(1) /\ RuleMet(3) /\ RuleMet(4)
    /\ f_out.rule = 5

(***************************************************************************)
(* C16: when an input violates several rules, the ValidationError raised   *)
(* is the one of the lowest-numbered violated rule, in the order           *)
(* (1) price > 0, (2) size > 0, (3) price >= min_price, (4) price <= 1.0,  *)
(* (5) size >= min_order_size, (6) size <= max_order_size,                 *)
(* (7) price*size <= 1.0*max_order_size.                                   *)
(***************************************************************************)
C16_FirstFailureWins ==
    (ValDone /\ Cardinality(RulesViolated) >= 2) =>
        f_out.rule = Lowest(RulesViolated)

(***************************************************************************)
(* C20: token id validation accepts a string exactly when it is non-empty  *)
(* and every character of it is in [a-zA-Z0-9_-]; the empty string and a   *)
(* string with any other character (a space, '/', a newline) at any        *)
(* position are rejected.                                                  *)
(***************************************************************************)
C20_TokenIdClass ==
    (f_out.state = "done" /\ f_in.token_id.k = "str") =>
        (f_out.ok <=>
            /\ f_in.token_id.s # <<>>
            /\ \A i \in 1..Len(f_in.token_id.s) :
                  f_in.token_id.s[i] \in {"a", "_", "-"})

(***************************************************************************)
(* Vocabulary of the configuration properties                              *)
(***************************************************************************)
Validated == f_out.state = "validated"
\* n hexadecimal characters, optionally preceded by one leading "0x"
AllHex(t) == \A i \in 1..Len(t) : t[i] \in HexChars
WellFormed(setting, n) ==
    /\ setting.k = "str"
    /\ \/ Len(setting.s) = n /\ AllHex(setting.s)
       \/ /\ Len(setting.s) = n + 2
          /\ setting.s[1] = "0" /\ setting.s[2] = "x"
          /\ AllHex(SubSeq(setting.s, 3, n + 2))

(***************************************************************************)
(* C17: whenever validate returns success, the limits handed to the engine *)
(* have max_order_size > 0 and min_order_size <= max_order_size.           *)
(***************************************************************************)
C17_ValidatedLimits ==
    (Validated /\ f_out.valid) =>
        /\ FGt(f_out.limits.max_order_size, F(0))
        /\ FLe(f_out.limits.min_order_size, f_out.limits.max_order_size)

(***************************************************************************)
(* C18: validate returns success exactly when the private key is present   *)
(* and well-formed, the proxy address is present and well-formed and       *)
(* max_order_size > 0, whatever the chain id and the signature type are.   *)
(***************************************************************************)
C18_ValidateIff ==
    Validated =>
        (f_out.valid <=>
            /\ WellFormed(f_in.private_key, PRIVATE_KEY_LEN)
            /\ WellFormed(f_in.proxy_address, ADDRESS_LEN)
            /\ FGt(f_out.cfg.max_order_size, F(0)))

(***************************************************************************)
(* C19: whatever the signature type setting is (unset, not an integer, an  *)
(* integer outside {1, 2}, 1 or 2), it makes loading raise nothing and the *)
(* resolved signature type is the setting when that is 1 or 2 and 1        *)
(* otherwise; loading completes when the other numeric settings convert.   *)
(***************************************************************************)
SignatureExpected ==
    CASE f_in.signature_type = Str(<<"1">>) -> 1
      [] f_in.signature_type = Str(<<"2">>) -> 2
      [] f_in.signature_type = Str(<<" ", "2">>) -> 2
      [] OTHER -> 1
OtherSettingsConvert ==
    /\ f_in.chain_id # Str(<<"x">>)
    /\ f_in.max_order_size # Str(<<"a", "b", "c">>)
    /\ f_in.connection_timeout # Str(<<"x">>)

C19_SignatureTypeFallback ==
    f_out.state # "idle" =>
        /\ f_out.error # "POLYMARKET_SIGNATURE_TYPE"
        /\ OtherSettingsConvert => f_out.state \in {"loaded", "validated"}
        /\ f_out.state \in {"loaded", "validated"} =>
              /\ f_out.cfg.signature_type \in {1, 2}
              /\ f_out.cfg.signature_type = SignatureExpected

\* a text that is not an integer
C19_Witness ==
    /\ f_out.state = "loaded"
    /\ f_in.signature_type = Str(<<"2", ".", "0">>)
    /\ f_out.cfg.signature_type = 1

(***************************************************************************)
(* Vocabulary of the properties of the command line                        *)
(***************************************************************************)
CliDone == f_in.fn = "main" /\ f_out.state = "done"
CliTrade == CliDone /\ f_in.args.command = "trade"
CliDryRun == CliTrade /\ f_in.args.dry_run
\* the calls to the external capability made by the run: those of
\* initialize_client, then those of the order step
CliOrderCalls ==
    {j \in 1..Len(f_out.trade.log) :
        f_out.trade.log[j].call \in {"create_order", "post_order"}}
CliConfigOk ==
    /\ config_init(f_in.env).state = "loaded"
    /\ validate(config_init(f_in.env).cfg)
CliInitOk == f_in.init_exts[1] = "ok"
CliArgsOk == validate_trade_args(f_in.args)
CliLimits == get_trading_limits(config_init(f_in.env).cfg)
CliParamsOk ==
    validate_order_params(CliLimits, f_in.args.price, f_in.args.size,
                          Upper(f_in.args.side)) = 0
CliOrderOk ==
    IF f_in.args.dry_run
    THEN CliParamsOk
    ELSE /\ validate_token_id(f_in.args.token_id)
         /\ CliParamsOk
         /\ f_in.place_ext.create = "ok"
         /\ f_in.place_ext.post = "ok"

(***************************************************************************)
(* C21, as stated: a trade run of the command line with the dry-run flag   *)
(* makes no call to the external capability at any point: it constructs no *)
(* session, derives and installs no credentials, and calls neither         *)
(* create_order nor post_order.                                            *)
(***************************************************************************)
C21_Original ==
    CliDryRun =>
        /\ f_out.init.log = <<>>
        /\ CliOrderCalls = {}

(***************************************************************************)
(* C21, amended: a trade run of the command line with the dry-run flag     *)
(* calls neither create_order nor post_order; its order step is the order  *)
(* parameter check alone.  The session is constructed and the credentials  *)
(* are derived and installed before the flag is looked at, whenever the    *)
(* configuration is valid.                                                 *)
(***************************************************************************)
C21_Amended ==
    CliDryRun =>
        /\ CliOrderCalls = {}
        /\ \A j \in 1..Len(f_out.trade.log) :
              f_out.trade.log[j].call = "_validate_order_params"
        /\ CliConfigOk =>
              /\ f_out.init.log # <<>>
              /\ f_out.init.log[1] = "ClobClient"
        /\ f_out.stage = "handle_trade_command" =>
              /\ f_out.init.log = <<"ClobClient", "create_or_derive_api_creds",
                                    "set_api_creds">>
              /\ Len(f_out.trade.log) = 1

\* a dry run that exits 0 after initialize_client made its three calls
C21_Witness ==
    /\ CliDryRun
    /\ f_out.stage = "handle_trade_command"
    /\ f_out.exit = 0
    /\ Len(f_out.init.log) = 3
    /\ is_initialized
    /\ client # None

PairDone ==
    f_in.fn = "place_buy_order, place_sell_order" /\ f_out.state = "done"
\* an entry of a trace without the side of its order
Unsided(e) == [e EXCEPT !.order.side = ""]
IsExternal(e) == e.call \in {"create_order", "post_order"}

C23_BuySellAlike ==
    PairDone =>
        /\ f_out.buy.kind = f_out.sell.kind
        /\ f_out.buy.payload = f_out.sell.payload
        /\ Len(f_out.buy.log) = Len(f_out.sell.log)
        /\ \A j \in 1..Len(f_out.buy.log) :
              /\ Unsided(f_out.buy.log[j]) = Unsided(f_out.sell.log[j])
              /\ IsExternal(f_out.buy.log[j]) =>
                    /\ f_out.buy.log[j].order.side = BUY
                    /\ f_out.sell.log[j].order.side = SELL
        /\ validate_order_params(f_in.limits, f_in.price, f_in.size, BUY)
             = validate_order_params(f_in.limits, f_in.price, f_in.size,
                                     SELL)

\* both orders were created and posted
C23_Witness ==
    /\ PairDone
    /\ f_out.buy.kind = "return" /\ f_out.buy.payload = "True"
    /\ f_out.sell.kind = "return" /\ f_out.sell.payload = "True"
    /\ Len(f_out.sell.log) = 4
    /\ f_out.sell.log[4].call = "post_order"
    /\ f_out.sell.log[4].order.side = SELL

(***************************************************************************)
(* C24: whenever the engine is ready it holds a session, and the           *)
(* credentials were derived from and installed on that very session; an    *)
(* initialize attempt constructs the session, derives the credentials,     *)
(* installs them and only then marks the engine ready.                     *)
(***************************************************************************)
InitSteps == <<"ClobClient", "create_or_derive_api_creds", "set_api_creds">>

C24_ReadyHasSession ==
    /\ is_initialized =>
          /\ client # None
          /\ client.sid = sessions
          /\ client.creds = client.sid
    /\ IsInitialize =>
          /\ Len(last.init_log) <= Len(InitSteps)
          /\ last.init_log = SubSeq(InitSteps, 1, Len(last.init_log))
          /\ is_initialized <=> (Returned("True") /\ last.init_log = InitSteps)
          /\ is_initialized => last.exts[last.calls] = "ok"

\* a second initialize_client made the engine ready on a new session
C24_Witness ==
    /\ IsInitialize
    /\ is_initialized
    /\ last.pre.client # None
    /\ client.sid = 2
    /\ client.creds = 2
    /\ last.init_log = InitSteps

(***************************************************************************)
(* C25: the total cost rule (rule 7) never decides: a (price, size) that   *)
(* passes rules 1 to 6 passes rule 7 too, whatever the limits, so the      *)
(* order parameter check never fails with the total cost error.            *)
(***************************************************************************)
C25_TotalCostRedundant ==
    ValDone =>
        /\ f_out.rule # 7
        /\ (\A n \in 1..6 : RuleMet(n)) => RuleMet(7)

\* the largest total cost the first six rules let through
C25_Witness ==
    /\ ValDone
    /\ f_in.price = F(MAX_PRICE)
    /\ f_in.size = f_in.limits.max_order_size
    /\ FMul(f_in.price, f_in.size)
         = FMul(F(MAX_PRICE), f_in.limits.max_order_size)
    /\ f_out.rule = 0

(***************************************************************************)
(* C26: on a ready engine, for every order id, cancel_order returns True   *)
(* and get_order_status returns a record (not None) holding that order id; *)
(* neither raises, calls the external capability or changes the engine.    *)
(***************************************************************************)
C26_StatusCancelPlaceholders ==
    (last.op \in {"get_order_status", "cancel_order"} /\ ~StartedNotReady) =>
        /\ last.kind = "return"
        /\ last.op = "cancel_order" => last.payload = "True"
        /\ last.op = "get_order_status" =>
              /\ last.payload = "dict"
              /\ last.status # NoStatus
              /\ last.status.order_id = last.order_id
        /\ last.log = <<>>
        /\ last.init_log = <<>>
        /\ StateAsBefore

\* the status of order o2 asked of a ready engine
C26_Witness ==
    /\ last.op = "get_order_status"
    /\ last.pre.is_initialized
    /\ last.pre.client # None
    /\ last.order_id = "o2"
    /\ last.status.order_id = "o2"

(***************************************************************************)
(* C27: the format check accepts a private key exactly when it is 64       *)
(* hexadecimal characters, optionally preceded by one leading "0x", and a  *)
(* proxy address exactly when it is 40 hexadecimal characters, optionally  *)
(* preceded by one leading "0x"; every other string (wrong length, a       *)
(* character that is no hexadecimal digit, "0x" elsewhere than at the      *)
(* start, a trailing newline) is rejected.                                 *)
(***************************************************************************)
C27_FormatCheck ==
    Validated =>
        /\ ~Falsy(f_out.cfg.private_key) =>
              (("POLYMARKET_PRIVATE_KEY has invalid format"
                   \notin {f_out.errors[j] : j \in 1..Len(f_out.errors)})
                 <=> WellFormed(f_out.cfg.private_key, PRIVATE_KEY_LEN))
        /\ ~Falsy(f_out.cfg.proxy_address) =>
              (("POLYMARKET_PROXY_ADDRESS has invalid format"
                   \notin {f_out.errors[j] : j \in 1..Len(f_out.errors)})
                 <=> WellFormed(f_out.cfg.proxy_address, ADDRESS_LEN))

(***************************************************************************)
(* C28: one place order call calls create_order at most once and           *)
(* post_order at most once, post_order only after create_order returned;   *)
(* a call that failed is not made again.                                   *)
(***************************************************************************)
C28_AtMostOnce ==
    IsPlace =>
        /\ Cardinality(Calls("create_order")) <= 1
        /\ Cardinality(Calls("post_order")) <= 1
        /\ \A j \in Calls("post_order") :
              \E i \in Calls("create_order") :
                  i < j /\ last.log[i].result = "ok"
        /\ \A i \in ExternalCalls :
              last.log[i].result # "ok" => i = Len(last.log)

\* create_order raised: it was called once and post_order was not called
C28_Witness ==
    /\ IsPlace
    /\ Cardinality(Calls("create_order")) = 1
    /\ Calls("post_order") = {}
    /\ last.ext.create = "Exception"
    /\ Returned("False")

(***************************************************************************)
(* C29: place_buy_order, place_sell_order, get_order_status and            *)
(* cancel_order leave the ready flag, the session and the trading limits   *)
(* as they were, whatever their outcome; only initialize_client changes    *)
(* the flag or the session, so that a ready engine stays ready across      *)
(* order, status and cancel calls.                                         *)
(***************************************************************************)
C29_Frame ==
    [][/\ last'.op \in OrderOps =>
             /\ is_initialized' = is_initialized
             /\ client' = client
             /\ trading_limits' = trading_limits
       /\ (is_initialized' # is_initialized \/ client' # client) =>
             last'.op = "initialize_client"
       /\ trading_limits' = trading_limits]_vars

\* a ready engine after a place order call that returned False
C29_Witness ==
    /\ IsPlace
    /\ Returned("False")
    /\ last.pre.is_initialized
    /\ is_initialized
    /\ client = last.pre.client
    /\ last.ext.post = "PolyApiException"

(***************************************************************************)
(* C30: an initialize_client that fails on a ready engine leaves it not    *)
(* ready, and every place_buy_order, place_sell_order, get_order_status    *)
(* and cancel_order after it raises TradingConnectionError, until an       *)
(* initialize_client succeeds.                                             *)
(***************************************************************************)
LastInitFailed ==
    init_results # <<>> /\ init_results[Len(init_results)] = "False"

C30_FailedReinitialize ==
    /\ (IsInitialize /\ last.pre.is_initialized /\ Returned("False")) =>
          ~is_initialized
    /\ LastInitFailed => ~is_initialized
    /\ (last.op \in OrderOps /\ LastInitFailed) =>
          Raised("TradingConnectionError")
    /\ (last.op \in OrderOps /\ init_results # <<>> /\ ~LastInitFailed) =>
          ~Raised("TradingConnectionError")

\* a cancel_order after the engine was made ready and then failed to
\* initialize again
C30_Witness ==
    /\ last.op = "cancel_order"
    /\ init_results = <<"True", "False">>
    /\ Raised("TradingConnectionError")
    /\ client # None

(***************************************************************************)
(* C31: for every (token_id, price, size, side) that the argument          *)
(* pre-check of the command line accepts, handle_trade_command with        *)
(* --dry-run returns True exactly when, without --dry-run and on a ready   *)
(* engine, the same arguments pass validation and create_order is called.  *)
(***************************************************************************)
DryDone == f_in.fn = "handle_trade_command" /\ f_out.state = "done"
ReachesCreateOrder ==
    \E j \in 1..Len(f_out.real.log) : f_out.real.log[j].call = "create_order"

C31_DryRunAgrees ==
    (DryDone /\ f_out.precheck) =>
        (f_out.dry.success <=> ReachesCreateOrder)

====
